---- MODULE Spec2Model ----
(***************************************************************************)
(* A model of the stress check application (src/data.py, src/app.py): the  *)
(* question catalog loader, the scorer (calculate_scores,                  *)
(* calculate_scale_scores), the high-stress classifier                     *)
(* (display_high_stress_warning) and the paginated questionnaire session   *)
(* that main() runs on every script run.                                   *)
(*                                                                         *)
(* Scale names and option labels are Japanese strings in the source; they  *)
(* are written here in ASCII, in the source's order.                       *)
(***************************************************************************)
EXTENDS Integers, Sequences, FiniteSets, TLC

VARIABLES
    csv_file,        \* questions.csv as the loader finds it: [status, rows]
    import_status,   \* "init" | "loaded" | "crashed": the import of data.py
    import_error,    \* the exception that escaped the import, or "none"
    questions_data,  \* data.py:17, the catalog: a sequence of [id, reverse]
    session_state,   \* st.session_state: a mapping with a changing key set
    run_pending,     \* a script run is queued (first load, or st.rerun())
    screen,          \* what the last script run of main() displayed
    answers,         \* scoring pipeline: the answers handed to calculate_scores
    scores,          \* scoring pipeline: the result of calculate_scores
    scale_scores,    \* scoring pipeline: the mapping handed to the classifier
    verdict,         \* scoring pipeline: what display_high_stress_warning did
    pc               \* scoring pipeline: position

vars == <<csv_file, import_status, import_error, questions_data, session_state,
          run_pending, screen, answers, scores, scale_scores, verdict, pc>>

(***************************************************************************)
(* Python values                                                           *)
(***************************************************************************)

\* Python's None, as dict.get returns it for a missing key.
NoneVal == "<None>"

\* d.get(k, default)
Get(d, k, default) == IF k \in DOMAIN d THEN d[k] ELSE default

\* The truth value Python gives a string or None in `if answer:`.
Truthy(x) == x # NoneVal /\ x # ""

\* The empty dict.
EmptyDict == <<>>

\* d[k] = v on a dict
Put(d, k, v) == (k :> v) @@ d

Range(s) == {s[i] : i \in DOMAIN s}

(***************************************************************************)
(* app.py constants                                                        *)
(***************************************************************************)

\* "soda", "maa soda", "yaya chigau", "chigau": strongest to weakest agreement
OPTIONS == <<"agree", "somewhat_agree", "somewhat_disagree", "disagree">>

SCORE_MAP_five == [o \in Range(OPTIONS) |->
    CASE o = "agree" -> 5
      [] o = "somewhat_agree" -> 3
      [] o = "somewhat_disagree" -> 2
      [] o = "disagree" -> 1]

SCORE_MAP == [o \in Range(OPTIONS) |->
    CASE o = "agree" -> 4
      [] o = "somewhat_agree" -> 3
      [] o = "somewhat_disagree" -> 2
      [] o = "disagree" -> 1]

SCORE_MAP_REVERSE_same == SCORE_MAP

SCORE_MAP_REVERSE == [o \in Range(OPTIONS) |->
    CASE o = "agree" -> 1
      [] o = "somewhat_agree" -> 2
      [] o = "somewhat_disagree" -> 3
      [] o = "disagree" -> 4]

STRESSOR_SCALES == <<"quantitative_load", "qualitative_load", "discretion",
                     "job_fitness", "workplace_relationships", "work_environment">>
REACTION_SCALES == <<"vigor", "irritability", "fatigue", "anxiety",
                     "depression", "physical_complaints">>
SUPPORT_SCALES == <<"supervisor_support", "coworker_support", "family_friend_support">>

QUESTIONS_PER_PAGE == 10

\* The thresholds of display_high_stress_warning.
REACTION_THRESHOLD == 77
STRESSOR_THRESHOLD == 76
SUPPORT_THRESHOLD == 36

(***************************************************************************)
(* data.py: the scale definitions                                          *)
(***************************************************************************)

\* letter \o first .. letter \o last, e.g. Ids("B", 19, 29) = <<"B19", ..., "B29">>
Ids(letter, first, last) ==
    [i \in 1..(last - first + 1) |-> letter \o ToString(first + i - 1)]

\* scales, in the dict's insertion order
scales == <<
    [name |-> "quantitative_load",       question_ids |-> <<"A1", "A2", "A3">>],
    [name |-> "qualitative_load",        question_ids |-> <<"A4", "A5", "A6", "A7">>],
    [name |-> "discretion",              question_ids |-> <<"A8", "A9", "A10">>],
    [name |-> "job_fitness",             question_ids |-> <<"A11", "A16">>],
    [name |-> "workplace_relationships", question_ids |-> <<"A12", "A13", "A14">>],
    [name |-> "work_environment",        question_ids |-> <<"A15">>],
    [name |-> "meaningfulness",          question_ids |-> <<"A17">>],
    [name |-> "vigor",                   question_ids |-> <<"B1", "B2", "B3">>],
    [name |-> "irritability",            question_ids |-> <<"B4", "B5", "B6">>],
    [name |-> "fatigue",                 question_ids |-> <<"B7", "B8", "B9">>],
    [name |-> "anxiety",                 question_ids |-> <<"B10", "B11", "B12">>],
    [name |-> "depression",              question_ids |-> Ids("B", 13, 18)],
    [name |-> "physical_complaints",     question_ids |-> Ids("B", 19, 29)],
    [name |-> "supervisor_support",      question_ids |-> <<"C1", "C4", "C7">>],
    [name |-> "coworker_support",        question_ids |-> <<"C2", "C5", "C8">>],
    [name |-> "family_friend_support",   question_ids |-> <<"C3", "C6", "C9">>],
    [name |-> "job_satisfaction",        question_ids |-> <<"D1">>],
    [name |-> "family_satisfaction",     question_ids |-> <<"D2">> ] >>

ScaleNames == {scales[i].name : i \in DOMAIN scales}

(***************************************************************************)
(* questions.csv, as the loader can find it                                *)
(***************************************************************************)

\* The identifiers of the 57 rows, in file order: A1..A17, B1..B29, C1..C9, D1..D2.
CatalogIds == Ids("A", 1, 17) \o Ids("B", 1, 29) \o Ids("C", 1, 9) \o Ids("D", 1, 2)

\* Contents of the `reverse` column (the display text column plays no part in
\* scoring or navigation and is left out of a row).
RawReverse == {"True", "true", " TRUE ", "False", "", "1"}

\* str(x).strip().lower() on the column values above
StripLower(x) ==
    CASE x = "True"   -> "true"
      [] x = "true"   -> "true"
      [] x = " TRUE " -> "true"
      [] x = "False"  -> "false"
      [] x = ""       -> ""
      [] x = "1"      -> "1"

\* the lambda of data.py:10
ParseReverse(x) == StripLower(x) = "true"

\* The rows of one letter group of identifiers, all with the same `reverse` value.
RowsOf(ids, rev) == [i \in DOMAIN ids |-> [id |-> ids[i], reverse |-> rev]]

\* The 57 rows in file order, with one `reverse` value per letter group.
RowsWith(ra, rb, rcd) ==
    RowsOf(Ids("A", 1, 17), ra) \o RowsOf(Ids("B", 1, 29), rb)
        \o RowsOf(Ids("C", 1, 9), rcd) \o RowsOf(Ids("D", 1, 2), rcd)

\* The 57 rows, the last one carrying the first row's identifier again (the
\* loader does not check that identifiers are unique).  The two rows lie on
\* different pages, so no script run gives two radios the same key.
RowsDuplicateId(rows) ==
    [i \in DOMAIN rows |-> IF i = Len(rows) THEN [rows[i] EXCEPT !.id = rows[1].id]
                           ELSE rows[i]]

FileStatus == {"ok", "missing", "unreadable", "no_reverse_column"}

\* What pd.read_csv / df['reverse'] raise for a file in that status.
ReadError(status) ==
    CASE status = "missing"           -> "FileNotFoundError"
      [] status = "unreadable"        -> "PermissionError"
      [] status = "no_reverse_column" -> "KeyError"
      [] OTHER                        -> "none"

load_catch_nothing(file) ==
    IF ReadError(file.status) # "none"
    THEN [raised |-> ReadError(file.status), value |-> <<>>]
    ELSE [raised |-> "none",
          value |-> [i \in DOMAIN file.rows |->
                        [id |-> file.rows[i].id,
                         reverse |-> ParseReverse(file.rows[i].reverse)]]]

\* load_questions_from_csv: the records of the file, `reverse` parsed; [] when
\* the file is not found; any other exception is not caught.
load_questions_from_csv(file) ==
    IF ReadError(file.status) = "FileNotFoundError"
    THEN [raised |-> "none", value |-> <<>>]
    ELSE IF ReadError(file.status) # "none"
    THEN [raised |-> ReadError(file.status), value |-> <<>>]
    ELSE [raised |-> "none",
          value |-> [i \in DOMAIN file.rows |->
                        [id |-> file.rows[i].id,
                         reverse |-> ParseReverse(file.rows[i].reverse)]]]

\* data.py:17 runs when app.py imports data: an exception the loader lets
\* through ends the import, and no script run ever reaches main().
Import ==
    /\ import_status = "init"
    /\ LET r == load_questions_from_csv(csv_file)
       IN  IF r.raised = "none"
           THEN /\ import_status' = "loaded"
                /\ import_error' = "none"
                /\ questions_data' = r.value
           ELSE /\ import_status' = "crashed"
                /\ import_error' = r.raised
                /\ questions_data' = <<>>
    /\ UNCHANGED <<csv_file, session_state, run_pending, screen, answers, scores,
                   scale_scores, verdict, pc>>

(***************************************************************************)
(* app.py: the scorer                                                      *)
(***************************************************************************)

ScoreStep_membership(acc, q, ans) ==
    LET answer == Get(ans, q.id, NoneVal)
        table == IF q.reverse THEN SCORE_MAP_REVERSE ELSE SCORE_MAP
    IN  IF acc.error # "none" THEN acc
        ELSE IF answer \notin DOMAIN table THEN acc
        ELSE [acc EXCEPT !.scores = Put(acc.scores, q.id, table[answer])]

\* One iteration of the loop of calculate_scores for catalog row q:
\* acc is [error, scores]; a SCORE_MAP lookup of a key it lacks raises KeyError.
ScoreStep(acc, q, ans) ==
    LET answer == Get(ans, q.id, NoneVal)
        table == IF q.reverse THEN SCORE_MAP_REVERSE ELSE SCORE_MAP
    IN  IF acc.error # "none" THEN acc
        ELSE IF ~Truthy(answer) THEN acc
        ELSE IF answer \notin DOMAIN table
             THEN [error |-> "KeyError", scores |-> acc.scores]
        ELSE [acc EXCEPT !.scores = Put(acc.scores, q.id, table[answer])]

RECURSIVE ScoreLoop(_, _, _, _)
ScoreLoop(acc, catalog, i, ans) ==
    IF acc.error # "none" \/ i > Len(catalog) THEN acc
    ELSE ScoreLoop(ScoreStep(acc, catalog[i], ans), catalog, i + 1, ans)

\* calculate_scores(answers) over the catalog: [error, scores]; the exception
\* ends the loop, and with it nothing is returned to the caller.
calculate_scores(catalog, ans) ==
    ScoreLoop([error |-> "none", scores |-> EmptyDict], catalog, 1, ans)

RECURSIVE SumGet(_, _, _)
\* sum(d.get(k, default) for k in keys)
SumGet(d, keys, default) ==
    IF keys = <<>> THEN 0
    ELSE Get(d, Head(keys), default) + SumGet(d, Tail(keys), default)

calculate_scale_scores_skip_first(sc) ==
    [n \in ScaleNames |->
        LET s == CHOOSE x \in Range(scales) : x.name = n
        IN  SumGet(sc, Tail(s.question_ids), 0)]

\* calculate_scale_scores(scores)
calculate_scale_scores(sc) ==
    [n \in ScaleNames |->
        LET s == CHOOSE x \in Range(scales) : x.name = n
        IN  SumGet(sc, s.question_ids, 0)]

(***************************************************************************)
(* app.py: the classifier                                                  *)
(***************************************************************************)

ReactionRuleFires_strict(total_reaction) == total_reaction > REACTION_THRESHOLD

\* app.py:186
ReactionRuleFires(total_reaction) == total_reaction >= REACTION_THRESHOLD

\* app.py:191
StressorRuleFires(total_stressor, total_support) ==
    total_stressor >= STRESSOR_THRESHOLD /\ total_support >= SUPPORT_THRESHOLD

SecondHeader_always(is_high_stress) == <<"warning">>

\* app.py:192-193
SecondHeader(is_high_stress) == IF ~is_high_stress THEN <<"warning">> ELSE <<>>

\* display_high_stress_warning(scale_scores): the flag it ends with and the
\* messages it writes, in order.
display_high_stress_warning(ss) ==
    LET total_stressor == SumGet(ss, STRESSOR_SCALES, 0)
        total_reaction == SumGet(ss, REACTION_SCALES, 0)
        total_support  == SumGet(ss, SUPPORT_SCALES, 0)
        s0 == [is_high_stress |-> FALSE, out |-> <<"subheader">>]
        s1 == IF ReactionRuleFires(total_reaction)
              THEN [is_high_stress |-> TRUE,
                    out |-> s0.out \o <<"warning", "reaction_rationale">>]
              ELSE s0
        s2 == IF StressorRuleFires(total_stressor, total_support)
              THEN [is_high_stress |-> TRUE,
                    out |-> s1.out \o SecondHeader(s1.is_high_stress)
                                   \o <<"stressor_support_rationale">>]
              ELSE s1
        s3 == IF ~s2.is_high_stress
              THEN [s2 EXCEPT !.out = s2.out \o <<"success">>]
              ELSE s2
    IN  [is_high_stress |-> s3.is_high_stress, out |-> s3.out \o <<"info">>]

(***************************************************************************)
(* app.py: one script run of main()                                        *)
(*                                                                         *)
(* Streamlit runs main() from the top for the first load and for every     *)
(* widget event (a radio changed, a button clicked); st.rerun() ends the   *)
(* run where it stands and queues a run without an event.  A run is        *)
(* modelled as a function from the session state and the event to the new  *)
(* session state, what was displayed, and whether st.rerun() was called.   *)
(* The radio widgets' own entries in st.session_state (key = question id)  *)
(* always equal the answer stored for that id and are not modelled.        *)
(***************************************************************************)

NoEvent == [type |-> "none", id |-> "", option |-> ""]
RadioEvent(id, option) == [type |-> "radio", id |-> id, option |-> option]
ButtonEvent(name) == [type |-> "button", id |-> name, option |-> ""]

Clicked(event, name) == event.type = "button" /\ event.id = name

\* app.py:239-244
InitSessionKeys(ss) ==
    LET s1 == IF "current_page" \notin DOMAIN ss THEN Put(ss, "current_page", 0) ELSE ss
        s2 == IF "answers" \notin DOMAIN s1 THEN Put(s1, "answers", EmptyDict) ELSE s1
    IN  IF "show_results" \notin DOMAIN s2 THEN Put(s2, "show_results", FALSE) ELSE s2

\* OPTIONS.index(current_answer) if current_answer in OPTIONS else 0, 0-based
DefaultIndex(current_answer) ==
    IF current_answer \in Range(OPTIONS)
    THEN (CHOOSE j \in DOMAIN OPTIONS : OPTIONS[j] = current_answer) - 1
    ELSE 0

\* What st.radio returns for question q: the option the user has just chosen,
\* else the option at default_index.
RadioValue(q, current_answer, event) ==
    IF event.type = "radio" /\ event.id = q.id THEN event.option
    ELSE OPTIONS[DefaultIndex(current_answer) + 1]

RECURSIVE RenderLoop(_, _, _, _, _)
\* The loop of render_questionnaire over questions_data[i..last].
RenderLoop(ans, catalog, i, last, event) ==
    IF i > last THEN ans
    ELSE LET q == catalog[i]
             current_answer == Get(ans, q.id, NoneVal)
         IN  RenderLoop(Put(ans, q.id, RadioValue(q, current_answer, event)),
                        catalog, i + 1, last, event)

Min(a, b) == IF a < b THEN a ELSE b

\* The indexes of questions_data[start_index:end_index] for a page, 1-based.
PageFirst(page) == page * QUESTIONS_PER_PAGE + 1

PageLast_short(catalog, page) == Min((page + 1) * QUESTIONS_PER_PAGE, Len(catalog)) - 1

PageLast(catalog, page) == Min((page + 1) * QUESTIONS_PER_PAGE, Len(catalog))

\* render_questionnaire: the answers after the page's radios have been read.
render_questionnaire(ss, catalog, event) ==
    Put(ss, "answers",
        RenderLoop(ss["answers"], catalog, PageFirst(ss["current_page"]),
                   PageLast(catalog, ss["current_page"]), event))

\* app.py:92
NumPages(catalog) ==
    IF Len(catalog) > 0
    THEN (Len(catalog) + QUESTIONS_PER_PAGE - 1) \div QUESTIONS_PER_PAGE
    ELSE 1

\* len(st.session_state.answers)
AnswerCount(ss) == Cardinality(DOMAIN ss["answers"])

ViewRefuses_never(ss, catalog) == FALSE

\* app.py:112
ViewRefuses(ss, catalog) == AnswerCount(ss) # Len(catalog)

\* The run's outcome: session state, st.rerun() called, messages and widgets
\* displayed.
Outcome(ss, rerun, view, messages, buttons, radios) ==
    [ss |-> ss, rerun |-> rerun,
     screen |-> [view |-> view, messages |-> messages, buttons |-> buttons,
                 radios |-> radios]]

\* handle_navigation, after render_questionnaire has displayed `radios`.
handle_navigation(ss, catalog, event, radios) ==
    LET page == ss["current_page"]
        num_pages == NumPages(catalog)
        prev == IF page > 0 THEN {"prev"} ELSE {}
        next == IF page < num_pages - 1 THEN {"next"} ELSE {}
        view == IF page = num_pages - 1 THEN {"view_results"} ELSE {}
    IN  IF page > 0 /\ Clicked(event, "prev")
        THEN Outcome(Put(ss, "current_page", page - 1), TRUE,
                     "questionnaire", <<>>, prev, radios)
        ELSE IF page < num_pages - 1 /\ Clicked(event, "next")
        THEN Outcome(Put(ss, "current_page", page + 1), TRUE,
                     "questionnaire", <<>>, prev \cup next, radios)
        ELSE IF page = num_pages - 1 /\ Clicked(event, "view_results")
        THEN IF ViewRefuses(ss, catalog)
             THEN Outcome(ss, FALSE, "questionnaire", <<"answer_all_error">>,
                          prev \cup next \cup view, radios)
             ELSE LET r == calculate_scores(catalog, ss["answers"])
                  IN  IF r.error # "none"
                      THEN Outcome(ss, FALSE, "questionnaire", <<r.error>>,
                                   prev \cup next \cup view, radios)
                      ELSE Outcome(
                              Put(Put(ss, "results",
                                      [scale_scores |-> calculate_scale_scores(r.scores)]),
                                  "show_results", TRUE),
                              TRUE, "questionnaire", <<>>, prev \cup next \cup view, radios)
        ELSE Outcome(ss, FALSE, "questionnaire", <<>>, prev \cup next \cup view, radios)

StartOver_keep_answers(ss) == [k \in DOMAIN ss \cap {"answers"} |-> ss[k]]

\* app.py:154-155: every key of the session state is deleted.
StartOver(ss) == EmptyDict

\* display_results: the classification is displayed, then the button handled.
display_results(ss, event) ==
    LET messages == display_high_stress_warning(ss["results"].scale_scores).out
    IN  IF Clicked(event, "start_over")
        THEN Outcome(StartOver(ss), TRUE, "results", messages, {"start_over"}, {})
        ELSE Outcome(ss, FALSE, "results", messages, {"start_over"}, {})

\* main()
main(ss0, catalog, event) ==
    LET ss == InitSessionKeys(ss0)
    IN  IF ss["show_results"]
        THEN display_results(ss, event)
        ELSE IF catalog = <<>>
        THEN Outcome(ss, FALSE, "load_error", <<"load_error">>, {}, {})
        ELSE LET rendered == render_questionnaire(ss, catalog, event)
                 radios == {catalog[i].id :
                               i \in PageFirst(ss["current_page"])..
                                     PageLast(catalog, ss["current_page"])}
             IN  handle_navigation(rendered, catalog, event, radios)

(***************************************************************************)
(* The session: script runs, and the user's events on what is displayed    *)
(***************************************************************************)

\* The user is taken to change only the first MaxSlot radios of a page, and to
\* hold at most MaxChanged answers other than the preselected first option.
MaxSlot == 2
MaxChanged == 1

Changed(ss) ==
    IF "answers" \in DOMAIN ss
    THEN Cardinality({id \in DOMAIN ss["answers"] : ss["answers"][id] # OPTIONS[1]})
    ELSE 0

ChangeableIds ==
    {questions_data[i].id :
        i \in {j \in DOMAIN questions_data : (j - 1) % QUESTIONS_PER_PAGE < MaxSlot}}

\* One script run of main() for `event`.
ScriptRun(event) ==
    /\ import_status = "loaded"
    /\ \E r \in {main(session_state, questions_data, event)} :
           /\ Changed(r.ss) <= MaxChanged
           /\ session_state' = r.ss
           /\ run_pending' = r.rerun
           /\ screen' = r.screen
    /\ UNCHANGED <<csv_file, import_status, import_error, questions_data, answers,
                   scores, scale_scores, verdict, pc>>

\* The first load of the page, or the run st.rerun() queued.
Run == run_pending /\ ScriptRun(NoEvent)

\* The user picks an option of a radio on the page.
SelectOption ==
    /\ ~run_pending
    /\ \E id \in screen.radios \cap ChangeableIds, j \in DOMAIN OPTIONS : ScriptRun(RadioEvent(id, OPTIONS[j]))

ClickPrev == ~run_pending /\ "prev" \in screen.buttons /\ ScriptRun(ButtonEvent("prev"))

ClickNext == ~run_pending /\ "next" \in screen.buttons /\ ScriptRun(ButtonEvent("next"))

ClickViewResults ==
    ~run_pending /\ "view_results" \in screen.buttons /\ ScriptRun(ButtonEvent("view_results"))

ClickStartOver ==
    ~run_pending /\ "start_over" \in screen.buttons /\ ScriptRun(ButtonEvent("start_over"))

BlankScreen == [view |-> "none", messages |-> <<>>, buttons |-> {}, radios |-> {}]

NoSession ==
    /\ session_state = EmptyDict
    /\ run_pending = FALSE
    /\ screen = BlankScreen

NoPipeline ==
    /\ answers = EmptyDict
    /\ scores = EmptyDict
    /\ scale_scores = EmptyDict
    /\ verdict = [is_high_stress |-> FALSE, out |-> <<>>]
    /\ pc = "none"

\* questions.csv for the session: the 57 rows, the 57 rows with a repeated
\* identifier, or a file that is missing or unreadable.
SessionFileFamily ==
    {[status |-> "ok", rows |-> RowsWith("False", " TRUE ", "1")],
     [status |-> "ok", rows |-> RowsDuplicateId(RowsWith("True", "", "true"))],
     [status |-> "missing", rows |-> <<>>],
     [status |-> "unreadable", rows |-> <<>>]}

\* A new browser session: nothing in st.session_state, the first run queued.
Init ==
    /\ csv_file \in SessionFileFamily
    /\ import_status = "init"
    /\ import_error = "none"
    /\ questions_data = <<>>
    /\ session_state = EmptyDict
    /\ run_pending = TRUE
    /\ screen = BlankScreen
    /\ NoPipeline

Next ==
    \/ Import
    \/ Run
    \/ SelectOption
    \/ ClickPrev
    \/ ClickNext
    \/ ClickViewResults
    \/ ClickStartOver

Spec == Init /\ [][Next]_vars

(***************************************************************************)
(* The scoring pipeline on its own: handle_navigation's else branch        *)
(* (app.py:115-117) followed by display_results' classification, applied   *)
(* to answers drawn from a bounded family.                                 *)
(***************************************************************************)

CalculateScores ==
    /\ import_status = "loaded"
    /\ pc = "start"
    /\ LET r == calculate_scores(questions_data, answers)
       IN  /\ scores' = IF r.error = "none" THEN r.scores ELSE scores
           /\ pc' = IF r.error = "none" THEN "scored" ELSE r.error
    /\ UNCHANGED <<csv_file, import_status, import_error, questions_data,
                   session_state, run_pending, screen, answers, scale_scores, verdict>>

CalculateScaleScores ==
    /\ pc = "scored"
    /\ scale_scores' = calculate_scale_scores(scores)
    /\ pc' = "scaled"
    /\ UNCHANGED <<csv_file, import_status, import_error, questions_data,
                   session_state, run_pending, screen, answers, scores, verdict>>

DisplayHighStressWarning ==
    /\ pc = "scaled"
    /\ verdict' = display_high_stress_warning(scale_scores)
    /\ pc' = "displayed"
    /\ UNCHANGED <<csv_file, import_status, import_error, questions_data,
                   session_state, run_pending, screen, answers, scores, scale_scores>>

\* A value of the answers mapping: the four options, the empty string and a
\* string outside the vocabulary.
AnswerValues == Range(OPTIONS) \cup {"", "maybe"}

\* The answers that give the first k identifiers v1 and the others v2, an
\* identifier whose value is NoneVal having no entry.
SplitAnswers(ids, k, v1, v2) ==
    LET val(i) == IF i <= k THEN v1 ELSE v2
        present == {i \in DOMAIN ids : val(i) # NoneVal}
    IN  [id \in {ids[i] : i \in present} |->
            val(CHOOSE i \in present : ids[i] = id)]

AnswerFamily ==
    {SplitAnswers(CatalogIds, k, v1, v2) :
        k \in 0..Len(CatalogIds),
        v1 \in AnswerValues \cup {NoneVal},
        v2 \in Range(OPTIONS) \cup {NoneVal}}

\* questions.csv with its 57 rows (every spelling of the reverse column
\* occurs), or missing, unreadable or without the reverse column.
FileFamily ==
    {[status |-> "ok", rows |-> RowsWith(ra, rb, rcd)] :
        ra \in {"True", "False"}, rb \in {" TRUE ", ""}, rcd \in {"true", "1"}}
    \cup {[status |-> s, rows |-> <<>>] : s \in FileStatus \ {"ok"}}

InitScore ==
    /\ csv_file \in FileFamily
    /\ import_status = "init"
    /\ import_error = "none"
    /\ questions_data = <<>>
    /\ NoSession
    /\ answers \in AnswerFamily
    /\ scores = EmptyDict
    /\ scale_scores = EmptyDict
    /\ verdict = [is_high_stress |-> FALSE, out |-> <<>>]
    /\ pc = "start"

NextScore == Import \/ CalculateScores \/ CalculateScaleScores \/ DisplayHighStressWarning

SpecScore == InitScore /\ [][NextScore]_vars

(***************************************************************************)
(* Claims about the scorer and the pipeline, under SpecScore               *)
(***************************************************************************)

CatalogIdSet == {questions_data[i].id : i \in DOMAIN questions_data}

\* calculate_scores has been called (and returned or raised).
ScoreCalled == import_status = "loaded" /\ pc # "start"

\* The position of an option in the vocabulary, 1 (strongest) to 4 (weakest).
OptionRank(o) == CHOOSE j \in DOMAIN OPTIONS : OPTIONS[j] = o

AllAnswersInVocabulary == \A id \in DOMAIN answers : answers[id] \in Range(OPTIONS)

\* C2: for answers whose values all come from the 4-option vocabulary,
\* calculate_scores returns an entry exactly for the catalog items that have an
\* answer; a non-reverse item scores 4,3,2,1 for the options from strongest to
\* weakest, a reverse item 1,2,3,4; unanswered items are left out.
C2_ItemScores ==
    (ScoreCalled /\ AllAnswersInVocabulary) =>
        /\ pc # "KeyError"
        /\ DOMAIN scores = CatalogIdSet \cap DOMAIN answers
        /\ \A i \in DOMAIN questions_data :
              LET q == questions_data[i]
              IN  q.id \in DOMAIN answers =>
                    scores[q.id] = IF q.reverse THEN OptionRank(answers[q.id])
                                   ELSE 5 - OptionRank(answers[q.id])

\* C2's case: a partial answer set in the vocabulary has been scored over a
\* catalog with reverse and non-reverse items, both kinds answered.
C2_Witness ==
    /\ ScoreCalled /\ pc = "scored" /\ AllAnswersInVocabulary
    /\ \E i, j, k \in DOMAIN questions_data :
          /\ questions_data[i].reverse /\ questions_data[i].id \in DOMAIN scores
          /\ ~questions_data[j].reverse /\ questions_data[j].id \in DOMAIN scores
          /\ questions_data[k].id \notin DOMAIN answers

ScaleItems(n) == (CHOOSE x \in Range(scales) : x.name = n).question_ids

\* Every item has an answer of the vocabulary, and the catalog holds every
\* item a scale refers to.
AllItemsAnswered ==
    /\ \A n \in ScaleNames : Range(ScaleItems(n)) \subseteq CatalogIdSet
    /\ \A id \in CatalogIdSet : id \in DOMAIN answers /\ answers[id] \in Range(OPTIONS)

ScaleScoresComputed == ScoreCalled /\ pc \in {"scaled", "displayed"}

\* C3: calculate_scale_scores returns exactly the 18 scale names, each value
\* an integer from 0 to 4 * (items of the scale), and at least (items of the
\* scale) when every item is answered.
C3_ScaleScoreRange ==
    ScaleScoresComputed =>
        /\ DOMAIN scale_scores = ScaleNames
        /\ Cardinality(DOMAIN scale_scores) = 18
        /\ \A n \in ScaleNames : scale_scores[n] \in 0..(4 * Len(ScaleItems(n)))
        /\ AllItemsAnswered =>
              \A n \in ScaleNames : scale_scores[n] >= Len(ScaleItems(n))

\* C3's case: scale scores of a completely answered catalog, one scale at its
\* minimum and one above it.
C3_Witness ==
    /\ ScaleScoresComputed /\ AllItemsAnswered
    /\ \E n, m \in ScaleNames :
          /\ scale_scores[n] = Len(ScaleItems(n))
          /\ scale_scores[m] > Len(ScaleItems(m))

\* A catalog item whose answer is a value outside the vocabulary.
InvalidAnswered(i) ==
    /\ questions_data[i].id \in DOMAIN answers
    /\ answers[questions_data[i].id] \notin Range(OPTIONS)

\* C5 as stated: an answer outside the vocabulary is treated as no answer,
\* the item left out and scoring completing without an error.
C5_InvalidOmitted ==
    ScoreCalled =>
        \A i \in DOMAIN questions_data :
            InvalidAnswered(i) =>
                pc # "KeyError" /\ questions_data[i].id \notin DOMAIN scores

\* C5 amended: an empty answer is treated as no answer (the item is left out,
\* and it raises nothing); a non-empty answer outside the vocabulary makes
\* calculate_scores raise KeyError, and no item scores are returned.
C5_InvalidRaises ==
    ScoreCalled =>
        /\ pc = "KeyError" <=>
              \E i \in DOMAIN questions_data :
                  InvalidAnswered(i) /\ answers[questions_data[i].id] # ""
        /\ pc = "KeyError" => scores = EmptyDict /\ scale_scores = EmptyDict
        /\ pc # "KeyError" =>
              \A i \in DOMAIN questions_data :
                  InvalidAnswered(i) => questions_data[i].id \notin DOMAIN scores

\* C5's case: scoring raised on an answer outside the vocabulary while other
\* items had answers of the vocabulary.
C5_Witness ==
    /\ ScoreCalled /\ pc = "KeyError"
    /\ \E i, j \in DOMAIN questions_data :
          /\ questions_data[i].id \in DOMAIN answers
          /\ answers[questions_data[i].id] = "maybe"
          /\ questions_data[j].id \in DOMAIN answers
          /\ answers[questions_data[j].id] \in Range(OPTIONS)

ImportDone == import_status # "init"

\* C6 as stated: no exception escapes the loader, whatever is wrong with the
\* source.
C6_NoExceptionEscapes == ImportDone => import_status = "loaded" /\ import_error = "none"

\* C6 amended: a missing source (FileNotFoundError) loads as the empty catalog
\* with no exception; every other failure to read it (PermissionError, a
\* missing reverse column) escapes the loader; scoring over the empty catalog
\* returns empty item scores and 18 zero scale scores without raising.
C6_MissingSourceOnly ==
    ImportDone =>
        /\ csv_file.status = "missing" =>
              import_status = "loaded" /\ import_error = "none" /\ questions_data = <<>>
        /\ csv_file.status = "unreadable" =>
              import_status = "crashed" /\ import_error = "PermissionError"
        /\ csv_file.status = "no_reverse_column" =>
              import_status = "crashed" /\ import_error = "KeyError"
        /\ csv_file.status = "ok" =>
              import_status = "loaded" /\ Len(questions_data) = Len(csv_file.rows)
        /\ (questions_data = <<>> /\ ScoreCalled) =>
              /\ pc # "KeyError"
              /\ scores = EmptyDict
              /\ ScaleScoresComputed =>
                    /\ DOMAIN scale_scores = ScaleNames
                    /\ Cardinality(ScaleNames) = 18
                    /\ \A n \in ScaleNames : scale_scores[n] = 0

\* C6's case: the source was missing, the catalog loaded empty and the scoring
\* functions ran over it with empty answers.
C6_Witness ==
    /\ csv_file.status = "missing" /\ import_status = "loaded"
    /\ answers = EmptyDict /\ ScaleScoresComputed

RECURSIVE SetSum(_, _)
\* The sum of d[k] over the keys of the set S that d holds.
SetSum(d, S) ==
    IF S = {} THEN 0
    ELSE LET k == CHOOSE x \in S : TRUE
         IN  (IF k \in DOMAIN d THEN d[k] ELSE 0) + SetSum(d, S \ {k})

StressorTotal(ss) == SetSum(ss, Range(STRESSOR_SCALES))
ReactionTotal(ss) == SetSum(ss, Range(REACTION_SCALES))
SupportTotal(ss) == SetSum(ss, Range(SUPPORT_SCALES))

\* C9: on scale scores that calculate_scores and calculate_scale_scores
\* produce, the stressor total is at most 64, so the stressor/support rule
\* never fires and the verdict is high stress exactly when the reaction total
\* is at least 77.
C9_StressorRuleUnreachable ==
    ScaleScoresComputed =>
        /\ StressorTotal(scale_scores) <= 64
        /\ pc = "displayed" =>
              /\ "stressor_support_rationale" \notin Range(verdict.out)
              /\ verdict.is_high_stress <=> ReactionTotal(scale_scores) >= 77

\* C9's case: the largest stressor and support totals the pipeline produces
\* (64 and 36) with a reaction total under 77, displayed as not high stress.
C9_Witness ==
    /\ ScoreCalled /\ pc = "displayed"
    /\ StressorTotal(scale_scores) = 64
    /\ SupportTotal(scale_scores) = 36
    /\ ReactionTotal(scale_scores) < 77
    /\ ~verdict.is_high_stress

(***************************************************************************)
(* The classifier on its own: display_high_stress_warning applied to scale *)
(* score mappings drawn from a bounded family.                             *)
(***************************************************************************)

\* The largest per-scale level of the family, and the largest amount by which
\* the first scale of a group differs from the group's level.
MaxLevel == 13
MaxDelta == 3

Levels == {0} \cup ((MaxLevel - 1)..MaxLevel)
Deltas == (0 - MaxDelta)..MaxDelta

\* The score of scale n of a group: the group's level vd[1], moved by vd[2]
\* (never below 0) for the first scale of the group.
LevelOf(n, names, vd) ==
    IF n = names[1] THEN (IF vd[1] + vd[2] < 0 THEN 0 ELSE vd[1] + vd[2]) ELSE vd[1]

\* A scale score mapping without the names in `missing`.
ScaleInput(r, s, p, missing) ==
    [n \in ScaleNames \ missing |->
        CASE n \in Range(REACTION_SCALES) -> LevelOf(n, REACTION_SCALES, r)
          [] n \in Range(STRESSOR_SCALES) -> LevelOf(n, STRESSOR_SCALES, s)
          [] n \in Range(SUPPORT_SCALES)  -> LevelOf(n, SUPPORT_SCALES, p)
          [] OTHER -> MaxLevel]

ScaleInputFamily ==
    {ScaleInput(r, s, p, missing) :
        r \in Levels \X Deltas, s \in Levels \X Deltas, p \in Levels \X Deltas,
        missing \in {{}, {"fatigue"}, {"job_fitness"}, {"coworker_support"}}}

InitClassify ==
    /\ csv_file = [status |-> "missing", rows |-> <<>>]
    /\ import_status = "loaded"
    /\ import_error = "none"
    /\ questions_data = <<>>
    /\ NoSession
    /\ answers = EmptyDict
    /\ scores = EmptyDict
    /\ scale_scores \in ScaleInputFamily
    /\ verdict = [is_high_stress |-> FALSE, out |-> <<>>]
    /\ pc = "scaled"

NextClassify == DisplayHighStressWarning

SpecClassify == InitClassify /\ [][NextClassify]_vars

(***************************************************************************)
(* Claims about the classifier, under SpecClassify                         *)
(***************************************************************************)

ReactionHigh == ReactionTotal(scale_scores) >= 77
StressorSupportHigh ==
    StressorTotal(scale_scores) >= 76 /\ SupportTotal(scale_scores) >= 36

\* C1: for every scale score mapping (a missing scale counting 0) the
\* classifier reports high stress exactly when the reaction total is at least
\* 77, or the stressor total at least 76 and the support total at least 36;
\* otherwise it reports the level as within the normal range.
C1_HighStressRule ==
    pc = "displayed" =>
        /\ verdict.is_high_stress <=> (ReactionHigh \/ StressorSupportHigh)
        /\ "success" \in Range(verdict.out) <=> ~(ReactionHigh \/ StressorSupportHigh)

\* C1's case (scenario C): stressor total 76 and support total 36 with the
\* reaction total just under its threshold, classified as high stress.
C1_Witness ==
    /\ pc = "displayed"
    /\ StressorTotal(scale_scores) = 76
    /\ SupportTotal(scale_scores) = 36
    /\ ReactionTotal(scale_scores) = 76
    /\ verdict.is_high_stress

\* C7: one classification writes the high-stress warning header at most once:
\* with both rules firing, the header once and then the reaction rationale and
\* the stressor/support rationale; with one rule firing, the header once and
\* that rule's rationale only.
C7_HeaderOnce ==
    pc = "displayed" =>
        /\ Cardinality({i \in DOMAIN verdict.out : verdict.out[i] = "warning"}) <= 1
        /\ (ReactionHigh /\ StressorSupportHigh) =>
              verdict.out = <<"subheader", "warning", "reaction_rationale",
                              "stressor_support_rationale", "info">>
        /\ (ReactionHigh /\ ~StressorSupportHigh) =>
              verdict.out = <<"subheader", "warning", "reaction_rationale", "info">>
        /\ (~ReactionHigh /\ StressorSupportHigh) =>
              verdict.out = <<"subheader", "warning", "stressor_support_rationale", "info">>
        /\ (~ReactionHigh /\ ~StressorSupportHigh) =>
              "warning" \notin Range(verdict.out)

\* C7's case: both rules fired in one classification.
C7_Witness ==
    /\ pc = "displayed"
    /\ ReactionHigh /\ StressorSupportHigh
    /\ "warning" \in Range(verdict.out)

(***************************************************************************)
(* Claims about the session, under Spec                                    *)
(***************************************************************************)

ShowingResults ==
    "show_results" \in DOMAIN session_state /\ session_state["show_results"]

ResultsStored == "results" \in DOMAIN session_state

RefusalDisplayed == "answer_all_error" \in Range(screen.messages)

\* C4: results are shown (show_results true, results stored) only with an
\* answer count equal to the catalog size when 'view results' was pressed;
\* pressed with an incomplete answer set, it displays the 'answer all
\* questions' error, leaves show_results false and stores no scores.
C4_ResultsOnlyWhenComplete ==
    /\ (ShowingResults \/ ResultsStored) =>
          /\ ShowingResults /\ ResultsStored
          /\ AnswerCount(session_state) = Len(questions_data)
          /\ session_state["results"].scale_scores =
                calculate_scale_scores(
                    calculate_scores(questions_data, session_state["answers"]).scores)
    /\ (screen.view = "questionnaire" /\ "view_results" \in screen.buttons
            /\ ~run_pending /\ AnswerCount(session_state) # Len(questions_data)) =>
          ~ShowingResults /\ ~ResultsStored
    /\ RefusalDisplayed =>
          /\ AnswerCount(session_state) # Len(questions_data)
          /\ ~ShowingResults /\ ~ResultsStored /\ ~run_pending

\* C4's case: 'view results' was pressed with fewer answers than catalog rows
\* (a catalog that repeats an identifier) and was refused.
C4_Witness ==
    /\ RefusalDisplayed
    /\ AnswerCount(session_state) < Len(questions_data)
    /\ session_state["current_page"] = NumPages(questions_data) - 1

UniqueIds == Cardinality(CatalogIdSet) = Len(questions_data)

HasPage(ss) == "current_page" \in DOMAIN ss

\* The session state the first run of a new session leaves: page 0, with the
\* first option stored for each of its questions, no results.
FreshSession ==
    [current_page |-> 0,
     show_results |-> FALSE,
     answers |-> [id \in {questions_data[i].id :
                            i \in 1..Min(QUESTIONS_PER_PAGE, Len(questions_data))}
                  |-> OPTIONS[1]]]

\* C8: 'start over' in the results view discards the whole session state, so
\* that the next run starts from answers = {}, current_page = 0, show_results
\* = false and no results, and leaves the session as the first run of a new
\* session does, whatever had been answered before.
C8_ResetRestoresInitial ==
    /\ [][(ShowingResults /\ ~ShowingResults') =>
            /\ session_state' = EmptyDict
            /\ run_pending'
            /\ screen'.view = "results"
            /\ InitSessionKeys(session_state') =
                  [answers |-> EmptyDict, current_page |-> 0, show_results |-> FALSE]]_vars
    /\ [][(session_state = EmptyDict /\ session_state' # EmptyDict) =>
            session_state' = FreshSession]_vars

\* C8's case: 'start over' has just been pressed in the results view.
C8_Witness ==
    /\ screen.view = "results"
    /\ session_state = EmptyDict
    /\ run_pending

\* C10, in every state: with a non-empty catalog of unique identifiers the
\* page stays within 0..num_pages-1, every radio displayed has its option
\* stored, the 'view results' button is only displayed with an option stored
\* for every catalog item, and the 'answer all questions' error never shows.
C10_AnswersCompleteState ==
    (import_status = "loaded" /\ UniqueIds /\ questions_data # <<>>
        /\ HasPage(session_state)) =>
        /\ session_state["current_page"] \in 0..(NumPages(questions_data) - 1)
        /\ ~RefusalDisplayed
        /\ screen.view = "questionnaire" =>
              \A id \in screen.radios :
                  /\ id \in DOMAIN session_state["answers"]
                  /\ session_state["answers"][id] \in Range(OPTIONS)
        /\ "view_results" \in screen.buttons =>
              \A id \in CatalogIdSet :
                  /\ id \in DOMAIN session_state["answers"]
                  /\ session_state["answers"][id] \in Range(OPTIONS)

\* C10: the above, and pages are reached one step at a time, starting from
\* page 0; so 'view results' is never refused, and results are reached without
\* the user choosing any option.
C10_AnswersCompleteAtView ==
    /\ []C10_AnswersCompleteState
    /\ [][/\ (HasPage(session_state) /\ HasPage(session_state')) =>
                session_state'["current_page"] - session_state["current_page"]
                    \in {-1, 0, 1}
          /\ (~HasPage(session_state) /\ HasPage(session_state')) =>
                session_state'["current_page"] = 0]_vars

\* C10's case: the results of the 57-item catalog are shown with every answer
\* still the preselected first option.
C10_Witness ==
    /\ ShowingResults /\ ResultsStored /\ UniqueIds /\ questions_data # <<>>
    /\ \A id \in CatalogIdSet : session_state["answers"][id] = OPTIONS[1]

====
